---------------------------- MODULE Spec2Model ----------------------------
(***************************************************************************)
(* A model of fat-macho-rs: FatWriter (src/write.rs) and FatReader         *)
(* (src/read.rs).                                                          *)
(*                                                                         *)
(* Byte counts.  write_to computes offsets in i64 and the header-width     *)
(* test compares them with 1 << 32.  A byte count n is held as two limbs,  *)
(* [h |-> n \div 2^16, l |-> n % 2^16], so that the program's own          *)
(* thresholds (2^32) and alignment classes (0x1000, 0x2000, 0x4000) keep   *)
(* their values.  Every count of the model stays far below 2^63, so i64    *)
(* arithmetic does not wrap.                                               *)
(***************************************************************************)
EXTENDS Integers, Sequences, FiniteSets, TLC

LimbBase == 2^16

\* n as a two-limb byte count (n a small integer).
Wide(n) == [h |-> n \div LimbBase, l |-> n % LimbBase]

WAdd(a, b) ==
    LET s == a.l + b.l
    IN  [h |-> a.h + b.h + (s \div LimbBase), l |-> s % LimbBase]

\* a - 1, for a > 0
WPred(a) ==
    IF a.l > 0 THEN [h |-> a.h, l |-> a.l - 1]
               ELSE [h |-> a.h - 1, l |-> LimbBase - 1]

\* a / d (integer division), d a small positive integer
WDiv(a, d) ==
    LET r == a.h % d
    IN  [h |-> a.h \div d, l |-> (r * LimbBase + a.l) \div d]

\* a % d, d a small positive integer
WMod(a, d) == ((a.h % d) * LimbBase + a.l) % d

\* a * m, m a small non-negative integer
WMul(a, m) ==
    LET p == a.l * m
    IN  [h |-> a.h * m + (p \div LimbBase), l |-> p % LimbBase]

\* a - b, for a >= b
WSub(a, b) ==
    IF a.l >= b.l THEN [h |-> a.h - b.h, l |-> a.l - b.l]
                  ELSE [h |-> a.h - b.h - 1, l |-> a.l + LimbBase - b.l]

WLess(a, b) == a.h < b.h \/ (a.h = b.h /\ a.l < b.l)

WGeq(a, b) == ~WLess(a, b)

\* 1i64 << 32
Two32 == [h |-> LimbBase, l |-> 0]

\* x >> 32 as u32
Hi32(a) == Wide(a.h \div LimbBase)

\* x as u32
Lo32(a) == [h |-> a.h % LimbBase, l |-> a.l]


(***************************************************************************)
(* goblin's CPU types and its architecture-name table (the rows the model  *)
(* uses).  Both are consumed by the writer and the reader through          *)
(* get_arch_from_flag and get_arch_name_from_types.                        *)
(***************************************************************************)
CPU_TYPE_MC680X0 == 6
CPU_TYPE_I386 == 7
CPU_TYPE_X86_64 == 16777223
CPU_TYPE_HPPA == 11
CPU_TYPE_ARM == 12
CPU_TYPE_ARM64 == 16777228
CPU_TYPE_ARM64_32 == 33554444
CPU_TYPE_MC88000 == 13
CPU_TYPE_SPARC == 14
CPU_TYPE_I860 == 15
CPU_TYPE_POWERPC == 18
CPU_TYPE_POWERPC64 == 16777234

ArchFlags ==
    << [name |-> "x86_64",  cputype |-> CPU_TYPE_X86_64,  cpusubtype |-> 3],
       [name |-> "x86_64h", cputype |-> CPU_TYPE_X86_64,  cpusubtype |-> 8],
       [name |-> "arm64",   cputype |-> CPU_TYPE_ARM64,   cpusubtype |-> 0],
       [name |-> "i386",    cputype |-> CPU_TYPE_I386,    cpusubtype |-> 3],
       [name |-> "m68k",    cputype |-> CPU_TYPE_MC680X0, cpusubtype |-> 1],
       [name |-> "arm",     cputype |-> CPU_TYPE_ARM,     cpusubtype |-> 0] >>

None == [some |-> FALSE, cputype |-> 0, cpusubtype |-> 0]

Some(t, s) == [some |-> TRUE, cputype |-> t, cpusubtype |-> s]

\* Option<(CpuType, CpuSubType)>: the first row named `name`
get_arch_from_flag(name) ==
    LET hits == {i \in 1..Len(ArchFlags) : ArchFlags[i].name = name}
    IN  IF hits = {} THEN None
        ELSE LET i == CHOOSE k \in hits : \A j \in hits : k <= j
             IN  Some(ArchFlags[i].cputype, ArchFlags[i].cpusubtype)

\* Option<&str>: "" stands for None
get_arch_name_from_types(t, s) ==
    LET hits == {i \in 1..Len(ArchFlags) :
                    ArchFlags[i].cputype = t /\ ArchFlags[i].cpusubtype = s}
    IN  IF hits = {} THEN ""
        ELSE ArchFlags[CHOOSE k \in hits : \A j \in hits : k <= j].name

get_align_from_cpu_types(cpu_type, cpu_subtype) ==
    LET arch_name == get_arch_name_from_types(cpu_type, cpu_subtype)
        flag == get_arch_from_flag(arch_name)
    IN  IF arch_name = "" \/ ~flag.some THEN 0
        ELSE IF flag.cputype \in {CPU_TYPE_ARM, CPU_TYPE_ARM64, CPU_TYPE_ARM64_32}
             THEN 16384
        ELSE IF flag.cputype \in {CPU_TYPE_X86_64, CPU_TYPE_I386,
                                  CPU_TYPE_POWERPC, CPU_TYPE_POWERPC64}
             THEN 4096
        ELSE IF flag.cputype \in {CPU_TYPE_MC680X0, CPU_TYPE_MC88000, CPU_TYPE_SPARC,
                                  CPU_TYPE_I860, CPU_TYPE_HPPA}
             THEN 8192
        ELSE 0

(***************************************************************************)
(* Inputs of add, as goblin's Object::parse classifies them.  The bytes of *)
(* an input are the record itself: a thin image is its Mach-O header's     *)
(* (cputype, cpusubtype) and its length; a fat container is the sequence   *)
(* of the slices its table describes (table_ok: whether fat.arches() can   *)
(* read that table); "other" is an archive or any non-Mach-O object; "bad" *)
(* is a buffer Object::parse fails on.                                     *)
(***************************************************************************)
Thin(t, s, n) ==
    [kind |-> "thin", cputype |-> t, cpusubtype |-> s, len |-> n,
     arches |-> <<>>, table_ok |-> TRUE]

Fat(parts, ok) ==
    [kind |-> "fat", cputype |-> 0, cpusubtype |-> 0, len |-> Wide(0),
     arches |-> parts, table_ok |-> ok]

Other == [kind |-> "other", cputype |-> 0, cpusubtype |-> 0, len |-> Wide(0),
          arches |-> <<>>, table_ok |-> TRUE]

Bad == [kind |-> "bad", cputype |-> 0, cpusubtype |-> 0, len |-> Wide(0),
        arches |-> <<>>, table_ok |-> TRUE]

\* struct ThinArch
ThinArch(bytes, align) ==
    [data |-> bytes,
     header |-> [cputype |-> bytes.cputype, cpusubtype |-> bytes.cpusubtype],
     align |-> align]

Ok == [tag |-> "Ok", msg |-> ""]

Err(tag, msg) == [tag |-> tag, msg |-> msg]

\* self.arches.iter().find(|arch| cputype and cpusubtype both match).is_some()
HasArchLastOnly(arches, cpu_type, cpu_subtype) ==
    /\ arches # <<>>
    /\ arches[Len(arches)].header.cputype = cpu_type
    /\ arches[Len(arches)].header.cpusubtype = cpu_subtype

HasArch(arches, cpu_type, cpu_subtype) ==
    \E i \in 1..Len(arches) :
        /\ arches[i].header.cputype = cpu_type
        /\ arches[i].header.cpusubtype = cpu_subtype

Cmp(x, y) == IF x < y THEN "Less" ELSE IF x = y THEN "Equal" ELSE "Greater"

\* the closure given to sort_by
Compare(a, b) ==
    IF a.header.cputype = b.header.cputype
    THEN Cmp(a.header.cpusubtype, b.header.cpusubtype)
    ELSE IF a.header.cputype = CPU_TYPE_ARM64 THEN "Greater"
    ELSE IF b.header.cputype = CPU_TYPE_ARM64 THEN "Less"
    ELSE Cmp(a.align, b.align)

(***************************************************************************)
(* slice::sort_by: the standard library's stable sort, which on a slice of *)
(* at most 20 elements is an insertion sort: each element in turn moves    *)
(* left past the elements it compares Less than, and stops at the first    *)
(* one it does not.                                                        *)
(***************************************************************************)
RECURSIVE InsertTail(_, _)
InsertTail(v, x) ==
    IF v = <<>> THEN <<x>>
    ELSE IF Compare(x, v[Len(v)]) = "Less"
         THEN Append(InsertTail(SubSeq(v, 1, Len(v) - 1), x), v[Len(v)])
         ELSE Append(v, x)

\* TRUE of every value; evaluating it computes x, so that a loop's first half is
\* computed before its second half starts and the evaluation stays shallow
Computed(x) == x = x

\* the elements v[lo..hi] inserted in turn into `sorted`: lo..mid, then mid+1..hi
RECURSIVE InsertRange(_, _, _, _)
InsertRange(sorted, v, lo, hi) ==
    IF lo > hi THEN sorted
    ELSE IF lo = hi THEN InsertTail(sorted, v[lo])
    ELSE LET mid == (lo + hi) \div 2
             first == InsertRange(sorted, v, lo, mid)
         IN  IF Computed(first) THEN InsertRange(first, v, mid + 1, hi) ELSE first

sort_by(v) == InsertRange(<<>>, v, 1, Len(v))

(***************************************************************************)
(* FatWriter::add, as a function of the builder (arches, max_align) and    *)
(* the input: the builder after the call and the call's result.  An Err    *)
(* returns at once, leaving what the call has already done in place.       *)
(***************************************************************************)
RECURSIVE add(_, _)
RECURSIVE AddEach(_, _, _)

\* Mach::Binary(obj), with the push moved before the duplicate check
\* Mach::Binary(obj)
AddBinary(st, bytes) ==
    IF HasArch(st.arches, bytes.cputype, bytes.cpusubtype)
    THEN LET n == get_arch_name_from_types(bytes.cputype, bytes.cpusubtype)
         IN  [arches |-> st.arches, max_align |-> st.max_align,
              res |-> Err("DuplicatedArch", IF n = "" THEN "unknown" ELSE n)]
    ELSE LET align == get_align_from_cpu_types(bytes.cputype, bytes.cpusubtype)
         IN  [arches |-> Append(st.arches, ThinArch(bytes, align)),
              max_align |-> IF align > st.max_align THEN align ELSE st.max_align,
              res |-> Ok]

\* for arch in fat.arches()? { self.add(arch.slice(&bytes).to_vec())?; }
AddEach(st, parts, i) ==
    IF i > Len(parts) THEN [arches |-> st.arches, max_align |-> st.max_align, res |-> Ok]
    ELSE LET r == add(st, parts[i])
         IN  IF r.res.tag # "Ok" THEN r ELSE AddEach(r, parts, i + 1)

add(st, bytes) ==
    LET m == CASE bytes.kind = "bad" ->
                     [arches |-> st.arches, max_align |-> st.max_align,
                      res |-> Err("Goblin", "parse error")]
               [] bytes.kind = "fat" ->
                     IF bytes.table_ok THEN AddEach(st, bytes.arches, 1)
                     ELSE [arches |-> st.arches, max_align |-> st.max_align,
                           res |-> Err("Goblin", "parse error")]
               [] bytes.kind = "thin" -> AddBinary(st, bytes)
               [] OTHER ->
                     [arches |-> st.arches, max_align |-> st.max_align,
                      res |-> Err("InvalidMachO", "input is not a macho file")]
    IN  IF m.res.tag # "Ok" THEN m
        ELSE [arches |-> sort_by(m.arches), max_align |-> m.max_align, res |-> Ok]



(***************************************************************************)
(* FatWriter::remove and FatWriter::exists.                                *)
(***************************************************************************)
\* self.arches.iter().position(|arch| cputype and cpusubtype both match); 0 for None
PositionByCpuType(arches, cpu_type, cpu_subtype) ==
    LET hits == {i \in 1..Len(arches) : arches[i].header.cputype = cpu_type}
    IN  IF hits = {} THEN 0 ELSE CHOOSE k \in hits : \A j \in hits : k <= j

Position(arches, cpu_type, cpu_subtype) ==
    LET hits == {i \in 1..Len(arches) :
                    /\ arches[i].header.cputype = cpu_type
                    /\ arches[i].header.cpusubtype = cpu_subtype}
    IN  IF hits = {} THEN 0 ELSE CHOOSE k \in hits : \A j \in hits : k <= j

\* Vec::remove(index)
RemoveAt(v, index) == SubSeq(v, 1, index - 1) \o SubSeq(v, index + 1, Len(v))

NoBytes == [some |-> FALSE, data |-> Other]

remove(st, arch) ==
    LET flag == get_arch_from_flag(arch)
        index == IF flag.some THEN Position(st.arches, flag.cputype, flag.cpusubtype)
                 ELSE 0
    IN  IF index # 0
        THEN [arches |-> RemoveAt(st.arches, index), max_align |-> st.max_align,
              res |-> [some |-> TRUE, data |-> st.arches[index].data]]
        ELSE [arches |-> st.arches, max_align |-> st.max_align, res |-> NoBytes]

exists(st, arch) ==
    LET flag == get_arch_from_flag(arch)
    IN  flag.some /\ HasArch(st.arches, flag.cputype, flag.cpusubtype)

(***************************************************************************)
(* FatWriter::write_to.  The writer is a Vec<u8>: every write_all appends  *)
(* one chunk at the vector's current length (`at`).  `fail_at` is the      *)
(* write_all call on which the writer returns an I/O error (0: it never    *)
(* fails).                                                                 *)
(***************************************************************************)
FAT_MAGIC == [h |-> 51966, l |-> 47806]

FAT_MAGIC_64 == WAdd(FAT_MAGIC, Wide(1))

\* (total_offset + align - 1) / align * align, align > 0
RoundUp(total_offset, align) ==
    WMul(WDiv(WPred(WAdd(total_offset, Wide(align))), align), align)

\* one pass of the first loop's body
OffsetStep(lay, arch, align) ==
    [offsets |-> Append(lay.offsets, lay.total),
     total |-> RoundUp(WAdd(lay.total, arch.data.len), align)]

\* the first loop over arches[lo..hi] (lo..mid, then mid+1..hi):
\* [offsets |-> arch_offsets, total |-> total_offset]
RECURSIVE ArchOffsets(_, _, _, _, _)
ArchOffsets(arches, align, lo, hi, lay) ==
    IF lo > hi THEN lay
    ELSE IF lo = hi THEN OffsetStep(lay, arches[lo], align)
    ELSE LET mid == (lo + hi) \div 2
             first == ArchOffsets(arches, align, lo, mid, lay)
         IN  IF Computed(first) THEN ArchOffsets(arches, align, mid + 1, hi, first)
             ELSE first

IsFat64LastOnly(arches, total_offset) ==
    WGeq(arches[Len(arches)].data.len, Two32)

IsFat64(arches, total_offset) ==
    \/ WGeq(total_offset, Two32)
    \/ WGeq(arches[Len(arches)].data.len, Two32)

RECURSIVE Log2Floor(_)
Log2Floor(n) == IF n < 2 THEN 0 ELSE 1 + Log2Floor(n \div 2)

\* (align as f32).log2() as u32; the cast of -inf (align = 0) saturates to 0
AlignBitsPlusOne(align) == IF align <= 0 THEN 0 ELSE Log2Floor(align) + 1

AlignBits(align) == IF align <= 0 THEN 0 ELSE Log2Floor(align)

\* the words pushed for one arch
ArchWords(arch, arch_offset, is_fat64, align_bits) ==
    <<Wide(arch.header.cputype), Wide(arch.header.cpusubtype)>>
    \o (IF is_fat64 THEN <<Hi32(arch_offset)>> ELSE <<>>)
    \o <<Lo32(arch_offset)>>
    \o (IF is_fat64 THEN <<Hi32(arch.data.len)>> ELSE <<>>)
    \o <<Lo32(arch.data.len)>>
    \o <<Wide(align_bits)>>
    \o (IF is_fat64 THEN <<Wide(0)>> ELSE <<>>)

\* hdr after the loop over the arches: the k-th word pushed
HdrWords(arches, arch_offsets, is_fat64, align_bits) ==
    LET per == IF is_fat64 THEN 8 ELSE 5
    IN  [k \in 1..(2 + per * Len(arches)) |->
            IF k = 1 THEN (IF is_fat64 THEN FAT_MAGIC_64 ELSE FAT_MAGIC)
            ELSE IF k = 2 THEN Wide(Len(arches))
            ELSE LET i == ((k - 3) \div per) + 1
                 IN  ArchWords(arches[i], arch_offsets[i], is_fat64,
                               align_bits)[((k - 3) % per) + 1]]

WordChunk(at, w) == [kind |-> "word", at |-> at, len |-> Wide(4), val |-> w, data |-> Other]

ZeroChunk(at, n) == [kind |-> "zeros", at |-> at, len |-> n, val |-> Wide(0), data |-> Other]

DataChunk(at, bytes) ==
    [kind |-> "data", at |-> at, len |-> bytes.len, val |-> Wide(0), data |-> bytes]

\* the writer's length
End(chunks) ==
    IF chunks = <<>> THEN Wide(0)
    ELSE WAdd(chunks[Len(chunks)].at, chunks[Len(chunks)].len)

\* one pass of the last loop's body: w.offset the cursor, w.chunks the writer
ChunkStep(w, arch, arch_offset) ==
    LET pad == WLess(w.offset, arch_offset)
        padded == IF pad
                  THEN Append(w.chunks,
                              ZeroChunk(End(w.chunks), WSub(arch_offset, w.offset)))
                  ELSE w.chunks
        start == IF pad THEN arch_offset ELSE w.offset
    IN  [offset |-> WAdd(start, arch.data.len),
         chunks |-> Append(padded, DataChunk(End(padded), arch.data))]

\* the last loop over arches[lo..hi] (lo..mid, then mid+1..hi)
RECURSIVE ArchChunks(_, _, _, _, _)
ArchChunks(arches, arch_offsets, lo, hi, w) ==
    IF lo > hi THEN w
    ELSE IF lo = hi THEN ChunkStep(w, arches[lo], arch_offsets[lo])
    ELSE LET mid == (lo + hi) \div 2
             first == ArchChunks(arches, arch_offsets, lo, mid, w)
         IN  IF Computed(first) THEN ArchChunks(arches, arch_offsets, mid + 1, hi, first)
             ELSE first

\* [chunks |-> what the writer holds after the call, res |-> "Ok" | "IoError" | "Panic"]
write_to(st, fail_at) ==
    IF st.arches = <<>> THEN [chunks |-> <<>>, res |-> "Ok"]
    ELSE IF st.max_align = 0
    THEN \* line 150 divides by align: "attempt to divide by zero"
         [chunks |-> <<>>, res |-> "Panic"]
    ELSE LET align == st.max_align
             lay == ArchOffsets(st.arches, align, 1, Len(st.arches),
                                [offsets |-> <<>>, total |-> Wide(align)])
             is_fat64 == IsFat64(st.arches, lay.total)
             align_bits == AlignBits(align)
             hdr == HdrWords(st.arches, lay.offsets, is_fat64, align_bits)
             head == [k \in 1..Len(hdr) |-> WordChunk(Wide(4 * (k - 1)), hdr[k])]
             all == ArchChunks(st.arches, lay.offsets, 1, Len(st.arches),
                               [offset |-> Wide(4 * Len(hdr)), chunks |-> head]).chunks
         IN  IF fail_at > 0 /\ fail_at <= Len(all)
             THEN [chunks |-> SubSeq(all, 1, fail_at - 1), res |-> "IoError"]
             ELSE [chunks |-> all, res |-> "Ok"]



(***************************************************************************)
(* FatReader.  The buffer is a complete output of write_to.  goblin's      *)
(* MultiArch reads the table as 20-byte fat_arch records after the 8-byte  *)
(* fat header.                                                             *)
(***************************************************************************)
\* the big-endian u32 at byte 4 * (k - 1) of the buffer
WordAt(buffer, k) == buffer[k].val

HasWord(buffer, k) == k <= Len(buffer) /\ buffer[k].kind = "word"

\* FatReader::new: "Ok", "NotFatBinary" or "Goblin"
reader_new(buffer) ==
    IF ~HasWord(buffer, 1) THEN Err("Goblin", "parse error")
    ELSE IF WordAt(buffer, 1) # FAT_MAGIC /\ WordAt(buffer, 1) # WAdd(FAT_MAGIC, Wide(1))
    THEN Err("NotFatBinary", "")
    ELSE IF ~HasWord(buffer, 2) THEN Err("NotFatBinary", "")
    ELSE Ok

\* MultiArch: the number of table entries, and entry i
NArches(buffer) == WordAt(buffer, 2).l

FatArchAt(buffer, i) ==
    LET w == 2 + 5 * (i - 1)
    IN  [cputype |-> WordAt(buffer, w + 1), cpusubtype |-> WordAt(buffer, w + 2),
         offset |-> WordAt(buffer, w + 3), size |-> WordAt(buffer, w + 4),
         align |-> WordAt(buffer, w + 5)]

NoSlice == [some |-> FALSE, offset |-> Wide(0), size |-> Wide(0)]

\* FatReader::extract: the borrowed range [offset, offset + size) of the buffer
extract(buffer, arch_name) ==
    LET flag == get_arch_from_flag(arch_name)
        hits == {i \in 1..NArches(buffer) :
                    FatArchAt(buffer, i).cputype = Wide(flag.cputype)}
    IN  IF ~flag.some \/ hits = {} THEN NoSlice
        ELSE LET arch == FatArchAt(buffer, CHOOSE k \in hits : \A j \in hits : k <= j)
             IN  [some |-> TRUE, offset |-> arch.offset, size |-> arch.size]

(***************************************************************************)
(* State.  arches and max_align are the FatWriter; out is the Vec<u8>      *)
(* handed to write_to; reader is the FatReader borrowing out.  last is the *)
(* latest call with its argument and result, pre the FatWriter as it was   *)
(* before that call, and rejected whether some add has returned an error.  *)
(***************************************************************************)
VARIABLES arches, max_align, out, reader, last, pre, rejected

vars == <<arches, max_align, out, reader, last, pre, rejected>>

Builder == [arches |-> arches, max_align |-> max_align]

Call(op, bytes, name, res, data, found, range) ==
    [op |-> op, bytes |-> bytes, name |-> name, res |-> res, data |-> data,
     found |-> found, range |-> range]

\* FatWriter::new()
Init ==
    /\ arches = <<>>
    /\ max_align = 0
    /\ out = <<>>
    /\ reader = FALSE
    /\ last = Call("new", Other, "", Ok, NoBytes, FALSE, NoSlice)
    /\ pre = [arches |-> <<>>, max_align |-> 0]
    /\ rejected = FALSE

\* a panic ends the program
Running == last.res.tag # "Panic"

\* the thin images an input holds
RECURSIVE Leaves(_)
RECURSIVE LeavesOf(_, _)
LeavesOf(parts, i) ==
    IF i > Len(parts) THEN 0 ELSE Leaves(parts[i]) + LeavesOf(parts, i + 1)

Leaves(bytes) ==
    IF bytes.kind = "thin" THEN 1
    ELSE IF bytes.kind = "fat" THEN LeavesOf(bytes.arches, 1)
    ELSE 0

\* the output buffer and its reader do not outlive a change of the builder
Add(bytes, cap) ==
    /\ Running
    /\ Len(arches) + Leaves(bytes) <= cap
    /\ LET r == add(Builder, bytes)
       IN  /\ arches' = r.arches
           /\ max_align' = r.max_align
           /\ last' = Call("add", bytes, "", r.res, NoBytes, FALSE, NoSlice)
           /\ rejected' = (rejected \/ r.res.tag # "Ok")
    /\ pre' = Builder
    /\ out' = <<>>
    /\ reader' = FALSE

Remove(arch) ==
    /\ Running
    /\ LET r == remove(Builder, arch)
       IN  /\ arches' = r.arches
           /\ max_align' = r.max_align
           /\ last' = Call("remove", Other, arch, Ok, r.res, FALSE, NoSlice)
    /\ pre' = Builder
    /\ out' = <<>>
    /\ reader' = FALSE
    /\ UNCHANGED rejected

Exists(arch) ==
    /\ Running
    /\ last' = Call("exists", Other, arch, Ok, NoBytes, exists(Builder, arch), NoSlice)
    /\ pre' = Builder
    /\ UNCHANGED <<arches, max_align, out, reader, rejected>>

\* write_to(&mut out) on a fresh Vec
WriteTo(fail_at) ==
    /\ Running
    /\ LET r == write_to(Builder, fail_at)
       IN  /\ out' = r.chunks
           /\ last' = Call("write_to", Other, "", Err(r.res, ""), NoBytes, FALSE, NoSlice)
    /\ pre' = Builder
    /\ reader' = FALSE
    /\ UNCHANGED <<arches, max_align, rejected>>

\* FatReader::new(&out) on the container just written
ReaderNew ==
    /\ Running
    /\ last.op = "write_to" /\ last.res.tag = "Ok"
    /\ LET r == reader_new(out)
       IN  /\ reader' = (r.tag = "Ok")
           /\ last' = Call("reader_new", Other, "", r, NoBytes, FALSE, NoSlice)
    /\ pre' = Builder
    /\ UNCHANGED <<arches, max_align, out, rejected>>

Extract(arch_name) ==
    /\ Running
    /\ reader
    /\ last' = Call("extract", Other, arch_name, Ok, NoBytes, FALSE, extract(out, arch_name))
    /\ pre' = Builder
    /\ UNCHANGED <<arches, max_align, out, reader, rejected>>

(***************************************************************************)
(* Inputs and specifications.  Spec drives the builder (add, remove,       *)
(* exists) with thin images, fat containers and unusable inputs; SpecIO    *)
(* serializes builders of thin images, some of them 2 GiB and 4 GiB long,  *)
(* and reads the containers back; SpecMany fills one builder with so many  *)
(* images that the header table outgrows the first offset.                 *)
(***************************************************************************)
MaxArches == 3
MaxFailAt == 2
MaxMany == 205

Names == {ArchFlags[i].name : i \in 1..Len(ArchFlags)} \cup {"riscv"}

X86_64_a == Thin(CPU_TYPE_X86_64, 3, Wide(100))
X86_64_b == Thin(CPU_TYPE_X86_64, 3, Wide(5000))
X86_64h == Thin(CPU_TYPE_X86_64, 8, Wide(300))
Arm64 == Thin(CPU_TYPE_ARM64, 0, Wide(20000))
I386 == Thin(CPU_TYPE_I386, 3, Wide(100))
M68k == Thin(CPU_TYPE_MC680X0, 1, Wide(9000))
\* cputype 1 (VAX): a CPU type outside the alignment table
Vax == Thin(1, 0, Wide(100))

ThinInputs == {X86_64_a, X86_64_b, X86_64h, Arm64, I386, Vax}

FatParts == {X86_64_a, X86_64h, Arm64, Vax}

FatInputs ==
    {Fat(<<p[1], p[2]>>, TRUE) :
        p \in {q \in FatParts \X FatParts : q[1] # q[2]}}
    \cup {Fat(<<Fat(<<X86_64_b, Arm64>>, TRUE), I386>>, TRUE),
          Fat(<<I386, Other>>, TRUE),
          Fat(<<Arm64>>, FALSE)}

Inputs == ThinInputs \cup FatInputs \cup {Other, Bad}

Next ==
    \/ \E bytes \in Inputs : Add(bytes, MaxArches)
    \/ \E arch \in Names : Remove(arch)
    \/ \E arch \in Names : Exists(arch)

Spec == Init /\ [][Next]_vars

\* 2^32 - 4096, 2^32 + 5 and 2^31 bytes
X86_64_edge == Thin(CPU_TYPE_X86_64, 3, [h |-> LimbBase - 1, l |-> LimbBase - 4096])
X86_64_huge == Thin(CPU_TYPE_X86_64, 3, [h |-> LimbBase, l |-> 5])
I386_half == Thin(CPU_TYPE_I386, 3, [h |-> LimbBase \div 2, l |-> 0])
M68k_half == Thin(CPU_TYPE_MC680X0, 1, [h |-> LimbBase \div 2, l |-> 0])

IOInputs ==
    {X86_64_a, X86_64_edge, X86_64_huge, X86_64h, Arm64, I386_half, M68k_half, M68k, Vax}

NextIO ==
    \/ \E bytes \in IOInputs : Add(bytes, MaxArches)
    \/ \E arch \in Names : Remove(arch)
    \/ \E fail_at \in 0..MaxFailAt : WriteTo(fail_at)
    \/ ReaderNew
    \/ \E arch \in Names : Extract(arch)

SpecIO == Init /\ [][NextIO]_vars

\* an x86_64 image first, then images of architectures the name table does not know
ManyInputs ==
    IF arches = <<>> THEN {X86_64_a}
    ELSE {Thin(1, Len(arches), Wide(100))}

NextMany ==
    \/ \E bytes \in ManyInputs : Add(bytes, MaxMany)
    \/ WriteTo(0)
    \/ ReaderNew
    \/ Extract("x86_64")

SpecMany == Init /\ [][NextMany]_vars



(***************************************************************************)
(* Properties of the builder, checked under Spec.                          *)
(***************************************************************************)
ArchId(e) == <<e.header.cputype, e.header.cpusubtype>>

BytesId(b) == <<b.cputype, b.cpusubtype>>

Ids(v) == {ArchId(v[i]) : i \in 1..Len(v)}

Entries(v) == {v[i] : i \in 1..Len(v)}

\* C1: in every reachable builder state no two entries have the same
\* (cputype, cpusubtype) pair.
C1_NoDuplicateArch ==
    \A i, j \in 1..Len(arches) : i # j => ArchId(arches[i]) # ArchId(arches[j])

\* a fat add that failed on a duplicate after adding a constituent
C1_Witness ==
    /\ last.op = "add" /\ last.bytes.kind = "fat"
    /\ last.res.tag = "DuplicatedArch"
    /\ Len(arches) > Len(pre.arches)
    /\ Len(arches) >= 2

\* C2: an add that returns DuplicatedArch leaves the builder's entries, their
\* count and contents, as they were before the call, for thin inputs and
\* for fat inputs of which some constituent is already present.
C2_DuplicateAdd ==
    (last.op = "add" /\ last.res.tag = "DuplicatedArch")
        => (arches = pre.arches /\ Len(arches) = Len(pre.arches))

\* C8: after successful adds and removes the entry list is sorted by the
\* ordering rule, pair by pair, and sorting it once more leaves it as it is.
C8_Sorted ==
    ~rejected =>
    /\ \A i, j \in 1..Len(arches) :
          i < j =>
             LET a == arches[i]
                 b == arches[j]
             IN  IF a.header.cputype = b.header.cputype
                 THEN a.header.cpusubtype < b.header.cpusubtype
                 ELSE IF a.header.cputype = CPU_TYPE_ARM64
                         \/ b.header.cputype = CPU_TYPE_ARM64
                 THEN b.header.cputype = CPU_TYPE_ARM64
                 ELSE a.align <= b.align
    /\ sort_by(arches) = arches

IsPair(b) ==
    /\ b.kind = "fat" /\ b.table_ok /\ Len(b.arches) = 2
    /\ b.arches[1].kind = "thin" /\ b.arches[2].kind = "thin"

\* adding A, then B, with two calls: the builder after them, and the first error
Separately(st, A, B) ==
    LET r1 == add(st, A)
        r2 == add(r1, B)
    IN  [arches |-> r2.arches, max_align |-> r2.max_align,
         res |-> IF r1.res.tag # "Ok" THEN r1.res ELSE r2.res]

NamesOf(b) == {n \in Names : LET f == get_arch_from_flag(n)
                             IN  f.some /\ <<f.cputype, f.cpusubtype>> = BytesId(b)}

FlatteningHolds ==
    LET A == last.bytes.arches[1]
        B == last.bytes.arches[2]
        sep == Separately(pre, A, B)
    IN  /\ arches = sep.arches
        /\ max_align = sep.max_align
        /\ last.res = sep.res
        /\ add(Builder, A).res.tag = "DuplicatedArch"
        /\ add(Builder, B).res.tag = "DuplicatedArch"
        /\ add([arches |-> sep.arches, max_align |-> sep.max_align], A).res.tag
              = "DuplicatedArch"
        /\ add([arches |-> sep.arches, max_align |-> sep.max_align], B).res.tag
              = "DuplicatedArch"
        /\ \A n \in NamesOf(A) \cup NamesOf(B) : exists(Builder, n)

\* C9: from any builder state, adding the fat container of A and B leaves the
\* builder as adding A and then B with two calls does, with the same result,
\* and afterwards A and B are both present and refused as duplicates.
C9_Flattening ==
    (last.op = "add" /\ IsPair(last.bytes)) => FlatteningHolds

\* C10: remove(X) on a builder holding X returns the bytes that were added
\* for X, exists(X) is false afterwards and every other entry is still
\* there; remove(X) on a builder without X returns None and changes nothing;
\* a successful add stores the image's own bytes under its identifier.
C10_RemoveExists ==
    /\ last.op = "remove" =>
          LET f == get_arch_from_flag(last.name)
              held == {e \in Entries(pre.arches) :
                          ArchId(e) = <<f.cputype, f.cpusubtype>>}
          IN  IF f.some /\ held # {}
              THEN /\ last.data.some
                   /\ \A e \in held : last.data.data = e.data
                   /\ ~exists(Builder, last.name)
                   /\ Entries(arches) = Entries(pre.arches) \ held
                   /\ Len(arches) = Len(pre.arches) - 1
                   /\ \A n \in Names :
                         (exists(pre, n) /\ get_arch_from_flag(n) # f)
                            => exists(Builder, n)
              ELSE /\ ~last.data.some
                   /\ arches = pre.arches
    /\ (last.op = "add" /\ last.bytes.kind = "thin" /\ last.res.tag = "Ok") =>
          /\ \E e \in Entries(arches) :
                ArchId(e) = BytesId(last.bytes) /\ e.data = last.bytes
          /\ \A n \in NamesOf(last.bytes) :
                /\ exists(Builder, n)
                /\ remove(Builder, n).res = [some |-> TRUE, data |-> last.bytes]

\* x86_64h removed from a builder that also holds an x86_64 entry
C10_Witness ==
    /\ last.op = "remove" /\ last.name = "x86_64h"
    /\ last.data.some /\ last.data.data = X86_64h
    /\ exists(Builder, "x86_64")
    /\ ~exists(Builder, "x86_64h")



(***************************************************************************)
(* The container write_to has produced, read off the writer: the header    *)
(* width from the magic, the table entries from the words after it, and    *)
(* the payloads from the data written.                                     *)
(***************************************************************************)
Written == last.op = "write_to" /\ last.res.tag = "Ok" /\ arches # <<>>

OutIsFat64 == out[1].val = FAT_MAGIC_64

OutPer == IF OutIsFat64 THEN 8 ELSE 5

OutCount == out[2].val.l

OutWords == SelectSeq(out, LAMBDA c : c.kind = "word")

Payloads == SelectSeq(out, LAMBDA c : c.kind = "data")

\* hi * 2^32 + lo
Join(hi, lo) == [h |-> hi.l * LimbBase + lo.h, l |-> lo.l]

OutDesc(i) ==
    LET w == 2 + OutPer * (i - 1)
    IN  IF OutIsFat64
        THEN [cputype |-> out[w + 1].val, cpusubtype |-> out[w + 2].val,
              offset |-> Join(out[w + 3].val, out[w + 4].val),
              size |-> Join(out[w + 5].val, out[w + 6].val),
              align_exp |-> out[w + 7].val.l]
        ELSE [cputype |-> out[w + 1].val, cpusubtype |-> out[w + 2].val,
              offset |-> out[w + 3].val,
              size |-> out[w + 4].val,
              align_exp |-> out[w + 5].val.l]

\* x rounded up to a multiple of a
CeilTo(x, a) ==
    LET r == WMod(x, a)
    IN  IF r = 0 THEN x ELSE WAdd(x, Wide(a - r))

\* offset[1] = align; offset[i+1] = offset[i] + length[i] rounded up to align
RECURSIVE LayoutOffset(_, _, _)
LayoutOffset(v, align, i) ==
    IF i = 1 THEN Wide(align)
    ELSE CeilTo(WAdd(LayoutOffset(v, align, i - 1), v[i - 1].data.len), align)

\* the alignment exponent of a CPU type's class; -1 outside the table
ClassExponent(cputype) ==
    IF cputype \in {CPU_TYPE_ARM, CPU_TYPE_ARM64, CPU_TYPE_ARM64_32} THEN 14
    ELSE IF cputype \in {CPU_TYPE_X86_64, CPU_TYPE_I386, CPU_TYPE_POWERPC,
                         CPU_TYPE_POWERPC64} THEN 12
    ELSE IF cputype \in {CPU_TYPE_MC680X0, CPU_TYPE_MC88000, CPU_TYPE_SPARC,
                         CPU_TYPE_I860, CPU_TYPE_HPPA} THEN 13
    ELSE -1

C5_HeaderWidth ==
    Written =>
        LET n == Len(arches)
            wide == \/ WGeq(LayoutOffset(arches, max_align, n + 1), Two32)
                    \/ \E i \in 1..n : WGeq(arches[i].data.len, Two32)
        IN  /\ out[1].val = (IF wide THEN FAT_MAGIC_64 ELSE FAT_MAGIC)
            /\ Len(OutWords) = 2 + (IF wide THEN 8 ELSE 5) * n
            /\ OutCount = n
            /\ \A i \in 1..n :
                  /\ OutDesc(i).offset = LayoutOffset(arches, max_align, i)
                  /\ OutDesc(i).size = arches[i].data.len

\* a 64-bit container whose only 4 GiB entry is not the last one
C5_Witness ==
    /\ Written
    /\ OutIsFat64
    /\ Len(arches) >= 2
    /\ WLess(arches[Len(arches)].data.len, Two32)
    /\ \E i \in 1..(Len(arches) - 1) : WGeq(arches[i].data.len, Two32)

\* C6: on a 32-bit container, extract returns a descriptor's range only if
\* that descriptor has the name's cputype and cpusubtype, and None when no
\* descriptor has both.
C6_ExactMatch ==
    (/\ last.op = "extract"
     /\ get_arch_from_flag(last.name).some
     /\ WordAt(out, 1) = FAT_MAGIC) =>
        LET f == get_arch_from_flag(last.name)
            exact == {i \in 1..NArches(out) :
                         /\ FatArchAt(out, i).cputype = Wide(f.cputype)
                         /\ FatArchAt(out, i).cpusubtype = Wide(f.cpusubtype)}
        IN  /\ last.range.some =>
                  \E i \in exact : /\ last.range.offset = FatArchAt(out, i).offset
                                   /\ last.range.size = FatArchAt(out, i).size
            /\ exact = {} => ~last.range.some

\* C7: write_to on a builder made by successful adds and removes returns Ok
\* or an I/O error; it never panics.
C7_NoPanic ==
    (last.op = "write_to" /\ ~rejected) => last.res.tag \in {"Ok", "IoError"}

(***************************************************************************)
(* Property of the written stream, checked under SpecMany.                 *)
(***************************************************************************)
\* C4: every payload lies in the stream exactly at [offset, offset + length)
\* of its descriptor, the offsets are align, then each end rounded up to
\* align, the payloads do not overlap and none starts inside the table.
C4_PayloadAtOffset ==
    Written =>
        LET n == OutCount
        IN  /\ Len(Payloads) = n
            /\ OutDesc(1).offset = Wide(max_align)
            /\ \A i \in 1..n :
                  /\ Payloads[i].data = arches[i].data
                  /\ Payloads[i].len = OutDesc(i).size
                  /\ Payloads[i].at = OutDesc(i).offset
                  /\ WGeq(Payloads[i].at, Wide(4 * Len(OutWords)))
            /\ \A i \in 1..(n - 1) :
                  /\ OutDesc(i + 1).offset
                        = CeilTo(WAdd(OutDesc(i).offset, OutDesc(i).size), max_align)
                  /\ WGeq(Payloads[i + 1].at, WAdd(Payloads[i].at, Payloads[i].len))


=============================================================================
